---- MODULE Spec2Model ----
(***************************************************************************)
(* A model of the cdcl2 solver: run_cnf reads clauses and interns          *)
(* variable names, State::sat runs the propagate / decide / analyse /      *)
(* learn / backjump loop over the clause list, the layered assignment      *)
(* stack, the assignment map and the derivation graph.                     *)
(***************************************************************************)
EXTENDS Integers, Sequences, FiniteSets, TLC

\* Bounds of the model: the number of distinct variable names in the input
\* and the number of literal tokens read by run_cnf.  The specification
\* with fairness reads shorter inputs (MaxLiveAtoms tokens).
MaxVars == 3
MaxAtoms == 4
MaxLiveAtoms == 3

VARIABLES
    pc,               \* position in run_cnf / State::sat
    var_manager,      \* run_cnf: name -> variable id
    max_var,          \* run_cnf: next fresh variable id
    input_clauses,    \* run_cnf: the clause list handed to State::new
    atoms,            \* run_cnf: atoms of the line being read
    clauses,          \* State.clauses
    values,           \* State.assignment_stack.values
    tops,             \* State.assignment_stack.tops
    assignments,      \* State.assignments
    derivation_graph, \* State.derivation_graph
    ci,               \* unit_prop_scan: index of the clause the for loop is at
    done_something,   \* unit_prop_scan: the flag of the while loop
    inputs,           \* sat: inputs of FullUnitPropResult::Conflict
    reset_level,      \* sat: backjump level returned by analyse_conflict
    sat,              \* run_cnf: result of state.sat()
    output,           \* run_cnf: what was written to the output
    line,             \* run_cnf: the error the lines() iterator yielded
    result            \* run_cnf: the value returned to the caller

vars == <<pc, var_manager, max_var, input_clauses, atoms, clauses, values, tops,
          assignments, derivation_graph, ci, done_something, inputs,
          reset_level, sat, output, line, result>>

solver == <<clauses, values, tops, assignments, derivation_graph>>

----------------------------------------------------------------------------
\* Option<T>: None is the empty set, Some(x) the singleton.
NoneOpt == {}
Some(x) == {x}
Unwrap(o) == CHOOSE x \in o : TRUE

Max(a, b) == IF a >= b THEN a ELSE b

\* variables.rs
as_atom(id, polarity) == [var |-> id, polarity |-> polarity]
negated(atom) == [var |-> atom.var, polarity |-> ~atom.polarity]

Names == 1..MaxVars

----------------------------------------------------------------------------
\* stack_stack.rs

push_value(vs, x) == Append(vs, x)

push_stack(ts, vs) == Append(ts, Len(vs))

peek_stack(ts, vs) ==
    LET top_start == IF ts = <<>> THEN 0 ELSE ts[Len(ts)]
    IN  SubSeq(vs, top_start + 1, Len(vs))

\* pop_stack_iter draining from top_start + 1: the first value of the level
\* is removed from the stack without being yielded.
pop_stack_iter_SkipsFirst(ts, vs) ==
    IF ts = <<>>
    THEN [panic |-> "Cannot pop the last stack", tops |-> ts, values |-> vs,
          drained |-> <<>>]
    ELSE LET top_start == ts[Len(ts)]
         IN  [panic |-> "", tops |-> SubSeq(ts, 1, Len(ts) - 1),
              values |-> SubSeq(vs, 1, top_start),
              drained |-> SubSeq(vs, top_start + 2, Len(vs))]

Reverse(s) == [i \in 1..Len(s) |-> s[Len(s) + 1 - i]]

\* The drained values yielded back to front, as by drain(..).rev().
pop_stack_iter_Reversed(ts, vs) ==
    IF ts = <<>>
    THEN [panic |-> "Cannot pop the last stack", tops |-> ts, values |-> vs,
          drained |-> <<>>]
    ELSE LET top_start == ts[Len(ts)]
         IN  [panic |-> "", tops |-> SubSeq(ts, 1, Len(ts) - 1),
              values |-> SubSeq(vs, 1, top_start),
              drained |-> Reverse(SubSeq(vs, top_start + 1, Len(vs)))]

\* The drained values are yielded front to back (Vec::drain).
pop_stack_iter(ts, vs) ==
    IF ts = <<>>
    THEN [panic |-> "Cannot pop the last stack", tops |-> ts, values |-> vs,
          drained |-> <<>>]
    ELSE LET top_start == ts[Len(ts)]
         IN  [panic |-> "", tops |-> SubSeq(ts, 1, Len(ts) - 1),
              values |-> SubSeq(vs, 1, top_start),
              drained |-> SubSeq(vs, top_start + 1, Len(vs))]

stack_len(ts) == Len(ts)

----------------------------------------------------------------------------
\* clauses.rs

\* The first loop without the early return on a second unset atom: the last
\* unset atom met is kept.
RECURSIVE FindUnit_KeepsLastUnset(_, _, _, _)
FindUnit_KeepsLastUnset(body, assignment, i, unit_result) ==
    IF i > Len(body) THEN [none |-> FALSE, unit_result |-> unit_result]
    ELSE LET atom == body[i] IN
         IF assignment[atom.var] # NoneOpt
         THEN IF assignment[atom.var] = Some(atom.polarity)
              THEN [none |-> TRUE, unit_result |-> NoneOpt]
              ELSE FindUnit_KeepsLastUnset(body, assignment, i + 1, unit_result)
         ELSE FindUnit_KeepsLastUnset(body, assignment, i + 1, Some(atom))

\* First loop of unit_prop_clause: an early return of None, or the single
\* unset atom met (if any).
RECURSIVE FindUnit(_, _, _, _)
FindUnit(body, assignment, i, unit_result) ==
    IF i > Len(body) THEN [none |-> FALSE, unit_result |-> unit_result]
    ELSE LET atom == body[i] IN
         IF assignment[atom.var] # NoneOpt
         THEN IF assignment[atom.var] = Some(atom.polarity)
              THEN [none |-> TRUE, unit_result |-> NoneOpt]
              ELSE FindUnit(body, assignment, i + 1, unit_result)
         ELSE IF unit_result # NoneOpt
              THEN [none |-> TRUE, unit_result |-> NoneOpt]
              ELSE FindUnit(body, assignment, i + 1, Some(atom))

\* atom_deps with the None arm pushing too: the negation of the unset atom
\* is listed among the inputs of its own derivation.
RECURSIVE atom_deps_IncludesUnset(_, _)
atom_deps_IncludesUnset(body, assignment) ==
    IF body = <<>> THEN <<>>
    ELSE LET atom == Head(body)
             rest == atom_deps_IncludesUnset(Tail(body), assignment)
         IN  IF assignment[atom.var] # Some(atom.polarity)
             THEN <<negated(atom)>> \o rest
             ELSE rest

\* atom_deps pushing the falsified atom itself instead of its negation.
RECURSIVE atom_deps_NotNegated(_, _)
atom_deps_NotNegated(body, assignment) ==
    IF body = <<>> THEN <<>>
    ELSE LET atom == Head(body)
             rest == atom_deps_NotNegated(Tail(body), assignment)
         IN  IF /\ assignment[atom.var] # NoneOpt
                /\ assignment[atom.var] # Some(atom.polarity)
             THEN <<atom>> \o rest
             ELSE rest

\* Second loop of unit_prop_clause: the negation of every falsified atom.
RECURSIVE atom_deps(_, _)
atom_deps(body, assignment) ==
    IF body = <<>> THEN <<>>
    ELSE LET atom == Head(body)
             rest == atom_deps(Tail(body), assignment)
         IN  IF /\ assignment[atom.var] # NoneOpt
                /\ assignment[atom.var] # Some(atom.polarity)
             THEN <<negated(atom)>> \o rest
             ELSE rest

\* unit_prop_clause with the final else branch returning None: a clause
\* whose atoms are all false is not reported.
unit_prop_clause_MissesConflict(body, assignment) ==
    LET r == FindUnit(body, assignment, 1, NoneOpt) IN
    IF r.none THEN [kind |-> "None", inputs |-> <<>>, output |-> NoneOpt]
    ELSE IF r.unit_result # NoneOpt
         THEN [kind |-> "UnitProp", inputs |-> atom_deps(body, assignment),
               output |-> r.unit_result]
         ELSE [kind |-> "None", inputs |-> <<>>, output |-> NoneOpt]

\* unit_prop_clause returning None where it should return UnitProp: no
\* literal is ever forced.
unit_prop_clause_MissesUnit(body, assignment) ==
    LET r == FindUnit(body, assignment, 1, NoneOpt) IN
    IF r.none THEN [kind |-> "None", inputs |-> <<>>, output |-> NoneOpt]
    ELSE IF r.unit_result # NoneOpt
         THEN [kind |-> "None", inputs |-> <<>>, output |-> NoneOpt]
         ELSE [kind |-> "Conflict", inputs |-> <<>>, output |-> NoneOpt]

unit_prop_clause(body, assignment) ==
    LET r == FindUnit(body, assignment, 1, NoneOpt) IN
    IF r.none THEN [kind |-> "None", inputs |-> <<>>, output |-> NoneOpt]
    ELSE IF r.unit_result # NoneOpt
         THEN [kind |-> "UnitProp", inputs |-> atom_deps(body, assignment),
               output |-> r.unit_result]
         ELSE [kind |-> "Conflict", inputs |-> <<>>, output |-> NoneOpt]

RECURSIVE MapNegated(_)
MapNegated(body) ==
    IF body = <<>> THEN <<>>
    ELSE <<negated(Head(body))>> \o MapNegated(Tail(body))

----------------------------------------------------------------------------
\* lib.rs: DerivationGraphNode

\* A Guess node recording the level before push_stack.
Guess_LevelBeforePush(level) ==
    [kind |-> "Guess", level |-> level - 1, inputs |-> <<>>]

Guess(level) == [kind |-> "Guess", level |-> level, inputs |-> <<>>]
\* A derivation recorded one level above the level it was made at.
Derivation_LevelPlusOne(level, ins) ==
    [kind |-> "Derivation", level |-> level + 1, inputs |-> ins]

Derivation(level, ins) == [kind |-> "Derivation", level |-> level, inputs |-> ins]

----------------------------------------------------------------------------
\* lib.rs: State::analyse_conflict

\* The for loop pushing atom instead of atom.negated() to result_body.
RECURSIVE VisitCut_NotNegated(_, _, _, _, _)
VisitCut_NotNegated(s, next_conflict, i, graph, cur_level) ==
    IF i > Len(next_conflict) \/ s.panic # "" THEN s
    ELSE LET atom == next_conflict[i] IN
         IF s.frontier[atom.var]
         THEN VisitCut_NotNegated(s, next_conflict, i + 1, graph, cur_level)
         ELSE LET s1 == [s EXCEPT !.frontier[atom.var] = TRUE] IN
              IF graph[atom.var] = NoneOpt
              THEN [s1 EXCEPT !.panic =
                       "Node not found in derivation graph, but was in conflict"]
              ELSE LET node == Unwrap(graph[atom.var]) IN
                   IF node.level = cur_level
                   THEN VisitCut_NotNegated([s1 EXCEPT !.cur_level_size = @ + 1],
                                 next_conflict, i + 1, graph, cur_level)
                   ELSE IF node.level # 0
                   THEN VisitCut_NotNegated([s1 EXCEPT
                                     !.reset_level = Max(@, node.level),
                                     !.result_body = Append(@, atom)],
                                 next_conflict, i + 1, graph, cur_level)
                   ELSE VisitCut_NotNegated(s1, next_conflict, i + 1, graph,
                                            cur_level)

\* for atom in next_conflict { ... }
\* The cut visit without the test `node.level() != 0`: literals assigned
\* at level 0 are pushed to result_body too.
RECURSIVE VisitCut_KeepsLevelZero(_, _, _, _, _)
VisitCut_KeepsLevelZero(s, next_conflict, i, graph, cur_level) ==
    IF i > Len(next_conflict) \/ s.panic # "" THEN s
    ELSE LET atom == next_conflict[i] IN
         IF s.frontier[atom.var]
         THEN VisitCut_KeepsLevelZero(s, next_conflict, i + 1, graph, cur_level)
         ELSE LET s1 == [s EXCEPT !.frontier[atom.var] = TRUE] IN
              IF graph[atom.var] = NoneOpt
              THEN [s1 EXCEPT !.panic =
                       "Node not found in derivation graph, but was in conflict"]
              ELSE LET node == Unwrap(graph[atom.var]) IN
                   IF node.level = cur_level
                   THEN VisitCut_KeepsLevelZero(
                            [s1 EXCEPT !.cur_level_size = @ + 1],
                            next_conflict, i + 1, graph, cur_level)
                   ELSE VisitCut_KeepsLevelZero(
                            [s1 EXCEPT
                                !.reset_level = Max(@, node.level),
                                !.result_body = Append(@, negated(atom))],
                            next_conflict, i + 1, graph, cur_level)

RECURSIVE VisitCut(_, _, _, _, _)
VisitCut(s, next_conflict, i, graph, cur_level) ==
    IF i > Len(next_conflict) \/ s.panic # "" THEN s
    ELSE LET atom == next_conflict[i] IN
         IF s.frontier[atom.var]
         THEN VisitCut(s, next_conflict, i + 1, graph, cur_level)
         ELSE LET s1 == [s EXCEPT !.frontier[atom.var] = TRUE] IN
              IF graph[atom.var] = NoneOpt
              THEN [s1 EXCEPT !.panic =
                       "Node not found in derivation graph, but was in conflict"]
              ELSE LET node == Unwrap(graph[atom.var]) IN
                   IF node.level = cur_level
                   THEN VisitCut([s1 EXCEPT !.cur_level_size = @ + 1],
                                 next_conflict, i + 1, graph, cur_level)
                   ELSE IF node.level # 0
                   THEN VisitCut([s1 EXCEPT
                                     !.reset_level = Max(@, node.level),
                                     !.result_body = Append(@, negated(atom))],
                                 next_conflict, i + 1, graph, cur_level)
                   ELSE VisitCut(s1, next_conflict, i + 1, graph, cur_level)

\* let next_frontier = loop { ... }: s.iter is the number of values the
\* reverse iterator over peek_stack() has not yielded yet.
RECURSIVE NextFrontier(_, _)
NextFrontier(s, peek) ==
    IF s.iter = 0 THEN [s EXCEPT !.panic = "Could not find a UIP"]
    ELSE LET atom == peek[s.iter] IN
         IF s.frontier[atom.var]
         THEN [s EXCEPT !.iter = @ - 1,
                        !.frontier[atom.var] = FALSE,
                        !.cur_level_size = @ - 1,
                        !.negative = @ \/ (s.cur_level_size - 1 < 0),
                        !.next_frontier = Some(atom)]
         ELSE NextFrontier([s EXCEPT !.iter = @ - 1], peek)

\* The analysis loop returning only once the pivot is the level's decision:
\* resolution runs past the first unique implication point to the last.
RECURSIVE AnalyseLoop_ToDecision(_, _, _, _, _)
AnalyseLoop_ToDecision(s, next_conflict, graph, cur_level, peek) ==
    LET s1 == VisitCut(s, next_conflict, 1, graph, cur_level) IN
    IF s1.panic # "" THEN s1
    ELSE LET s2 == NextFrontier(s1, peek) IN
         IF s2.panic # "" THEN s2
         ELSE LET atom == Unwrap(s2.next_frontier) IN
              IF graph[atom.var] = NoneOpt
              THEN [s2 EXCEPT !.panic =
                       "Node not found in derivation graph, but was in conflict"]
              ELSE IF Unwrap(graph[atom.var]).kind = "Guess"
              THEN IF s2.cur_level_size = 0
                   THEN [s2 EXCEPT !.result_body = Append(@, negated(atom))]
                   ELSE [s2 EXCEPT !.panic =
                            "Found the guess node, but expected it to be a UIP"]
              ELSE AnalyseLoop_ToDecision(s2, Unwrap(graph[atom.var]).inputs,
                                          graph, cur_level, peek)

RECURSIVE AnalyseLoop(_, _, _, _, _)
AnalyseLoop(s, next_conflict, graph, cur_level, peek) ==
    LET s1 == VisitCut(s, next_conflict, 1, graph, cur_level) IN
    IF s1.panic # "" THEN s1
    ELSE LET s2 == NextFrontier(s1, peek) IN
         IF s2.panic # "" THEN s2
         ELSE LET atom == Unwrap(s2.next_frontier) IN
              IF s2.cur_level_size = 0
              THEN [s2 EXCEPT !.result_body = Append(@, negated(atom))]
              ELSE IF graph[atom.var] = NoneOpt
              THEN [s2 EXCEPT !.panic =
                       "Node not found in derivation graph, but was in conflict"]
              ELSE IF Unwrap(graph[atom.var]).kind = "Guess"
              THEN [s2 EXCEPT !.panic =
                       "Found the guess node, but expected it to be a UIP"]
              ELSE AnalyseLoop(s2, Unwrap(graph[atom.var]).inputs, graph,
                               cur_level, peek)

\* analyse_conflict pushing the pivot itself instead of its negation.
analyse_conflict_PivotNotNegated(ins, ts, vs, assignment, graph) ==
    LET peek == peek_stack(ts, vs)
        s0 == [reset_level |-> 0,
               result_body |-> <<>>,
               frontier |-> [v \in DOMAIN assignment |-> FALSE],
               cur_level_size |-> 0,
               iter |-> Len(peek),
               next_frontier |-> NoneOpt,
               negative |-> FALSE,
               panic |-> ""]
        r == AnalyseLoop(s0, ins, graph, stack_len(ts), peek)
    IN  IF r.panic # "" THEN r
        ELSE [r EXCEPT !.result_body =
                 Append(SubSeq(@, 1, Len(@) - 1), Unwrap(r.next_frontier))]

\* analyse_conflict returning the level of the conflict as the backjump
\* level.
analyse_conflict_ReturnsCurLevel(ins, ts, vs, assignment, graph) ==
    LET peek == peek_stack(ts, vs)
        s0 == [reset_level |-> 0,
               result_body |-> <<>>,
               frontier |-> [v \in DOMAIN assignment |-> FALSE],
               cur_level_size |-> 0,
               iter |-> Len(peek),
               next_frontier |-> NoneOpt,
               negative |-> FALSE,
               panic |-> ""]
        r == AnalyseLoop(s0, ins, graph, stack_len(ts), peek)
    IN  [r EXCEPT !.reset_level = stack_len(ts)]

\* The result carries the learned clause (result_body), reset_level, the
\* pivot (next_frontier), the panic message if the function aborted, and
\* whether cur_level_size was ever decremented below 0.
analyse_conflict(ins, ts, vs, assignment, graph) ==
    LET peek == peek_stack(ts, vs)
        s0 == [reset_level |-> 0,
               result_body |-> <<>>,
               frontier |-> [v \in DOMAIN assignment |-> FALSE],
               cur_level_size |-> 0,
               iter |-> Len(peek),
               next_frontier |-> NoneOpt,
               negative |-> FALSE,
               panic |-> ""]
    IN  AnalyseLoop(s0, ins, graph, stack_len(ts), peek)

----------------------------------------------------------------------------
\* guess enumerating the assignment map from index 1: variable 0 is never
\* looked at.
guess_SkipsVarZero(assignment) ==
    LET unset == {i \in DOMAIN assignment : i # 0 /\ assignment[i] = NoneOpt} IN
    IF unset = {} THEN NoneOpt
    ELSE Some(as_atom(CHOOSE i \in unset : \A j \in unset : i <= j, TRUE))

\* guess returning the last unset variable instead of the first.
guess_LastUnset(assignment) ==
    LET unset == {i \in DOMAIN assignment : assignment[i] = NoneOpt} IN
    IF unset = {} THEN NoneOpt
    ELSE Some(as_atom(CHOOSE i \in unset : \A j \in unset : i >= j, TRUE))

\* lib.rs: State::guess, first unset variable, positive polarity
guess(assignment) ==
    LET unset == {i \in DOMAIN assignment : assignment[i] = NoneOpt} IN
    IF unset = {} THEN NoneOpt
    ELSE Some(as_atom(CHOOSE i \in unset : \A j \in unset : i <= j, TRUE))

\* for var in pop_stack_iter() { assignments[..] = None; graph[..] = None }
RECURSIVE ClearAll(_, _)
ClearAll(f, drained) ==
    IF drained = <<>> THEN f
    ELSE ClearAll([f EXCEPT ![Head(drained).var] = NoneOpt], Tail(drained))

\* A backjump to level 0 taken as a restart: once the levels are popped the
\* bottom layer is drained and cleared too.
RECURSIVE BackjumpLoop_DrainsBottom(_, _)
BackjumpLoop_DrainsBottom(s, target) ==
    IF s.panic # "" THEN s
    ELSE IF ~(stack_len(s.tops) > target)
    THEN IF target = 0
         THEN [s EXCEPT !.values = <<>>,
                        !.assignments = ClearAll(s.assignments, s.values),
                        !.derivation_graph = ClearAll(s.derivation_graph, s.values)]
         ELSE s
    ELSE LET p == pop_stack_iter(s.tops, s.values) IN
         BackjumpLoop_DrainsBottom(
             [panic |-> p.panic, tops |-> p.tops, values |-> p.values,
              assignments |-> ClearAll(s.assignments, p.drained),
              derivation_graph |-> ClearAll(s.derivation_graph, p.drained)],
             target)

\* The backjump loop with the guard len() >= reset_level.
RECURSIVE BackjumpLoop_PopsTarget(_, _)
BackjumpLoop_PopsTarget(s, target) ==
    IF ~(stack_len(s.tops) >= target) \/ s.panic # "" THEN s
    ELSE LET p == pop_stack_iter(s.tops, s.values) IN
         BackjumpLoop_PopsTarget(
             [panic |-> p.panic, tops |-> p.tops, values |-> p.values,
              assignments |-> ClearAll(s.assignments, p.drained),
              derivation_graph |-> ClearAll(s.derivation_graph, p.drained)],
             target)

\* while self.assignment_stack.len() > reset_level { ... }
RECURSIVE BackjumpLoop(_, _)
BackjumpLoop(s, target) ==
    IF ~(stack_len(s.tops) > target) \/ s.panic # "" THEN s
    ELSE LET p == pop_stack_iter(s.tops, s.values) IN
         BackjumpLoop([panic |-> p.panic, tops |-> p.tops, values |-> p.values,
                       assignments |-> ClearAll(s.assignments, p.drained),
                       derivation_graph |-> ClearAll(s.derivation_graph, p.drained)],
                      target)

----------------------------------------------------------------------------
Init ==
    /\ pc = "read"
    /\ var_manager = << >>
    /\ max_var = 0
    /\ input_clauses = <<>>
    /\ atoms = <<>>
    /\ clauses = <<>>
    /\ values = <<>>
    /\ tops = <<>>
    /\ assignments = << >>
    /\ derivation_graph = << >>
    /\ ci = 1
    /\ done_something = TRUE
    /\ inputs = <<>>
    /\ reset_level = 0
    /\ sat = NoneOpt
    /\ output = <<>>
    /\ line = NoneOpt
    /\ result = <<>>

AtomsRead == Len(atoms) +
    (LET RECURSIVE total(_)
         total(cs) == IF cs = <<>> THEN 0 ELSE Len(Head(cs)) + total(Tail(cs))
     IN  total(input_clauses))

\* run_cnf, one token of a line: intern the name, push the atom.  The code
\* compares names for equality only, so an unseen name is taken to be the
\* lowest unused one.  At most `bound` tokens are read.
ReadToken(bound) ==
    /\ pc = "read"
    /\ AtomsRead < bound
    /\ \E name \in Names, polarity \in BOOLEAN :
        /\ name <= Cardinality(DOMAIN var_manager) + 1
        /\ IF name \in DOMAIN var_manager
           THEN UNCHANGED <<var_manager, max_var>>
           ELSE /\ var_manager' = var_manager @@ (name :> max_var)
                /\ max_var' = max_var + 1
        /\ atoms' = Append(atoms, as_atom(var_manager'[name], polarity))
    /\ UNCHANGED <<pc, input_clauses, clauses, values, tops, assignments,
                   derivation_graph, ci, done_something, inputs, reset_level,
                   sat, output>>
    /\ UNCHANGED <<line, result>>

ReadAtom == ReadToken(MaxAtoms)

ReadAtomShort == ReadToken(MaxLiveAtoms)

\* run_cnf, end of a non-empty line: clauses.push(Clause::new(atoms))
EndLine ==
    /\ pc = "read"
    /\ atoms # <<>>
    /\ input_clauses' = Append(input_clauses, atoms)
    /\ atoms' = <<>>
    /\ UNCHANGED <<pc, var_manager, max_var, clauses, values, tops, assignments,
                   derivation_graph, ci, done_something, inputs, reset_level,
                   sat, output>>
    /\ UNCHANGED <<line, result>>

\* run_cnf, the input ends (end of stream or an empty line): State::new,
\* then sat() enters unit_prop_scan and starts the first pass.
EndInput ==
    /\ pc = "read"
    /\ atoms = <<>>
    /\ pc' = "scan"
    /\ clauses' = input_clauses
    /\ values' = <<>>
    /\ tops' = <<>>
    /\ assignments' = [v \in 0..(Cardinality(DOMAIN var_manager) - 1) |-> NoneOpt]
    /\ derivation_graph' = [v \in 0..(Cardinality(DOMAIN var_manager) - 1) |-> NoneOpt]
    /\ ci' = 1
    /\ done_something' = FALSE
    /\ UNCHANGED <<var_manager, max_var, input_clauses, atoms, inputs,
                   reset_level, sat, output>>
    /\ UNCHANGED <<line, result>>

\* The errors a read of the input can fail with (io::ErrorKind; lines()
\* itself reports InvalidData for a line that is not UTF-8).
IoErrors == {"InvalidData", "Other"}

\* run_cnf, `for line in input.lines()`: the iterator yields Err(e) for
\* the next line.
LineFails ==
    /\ pc = "read"
    /\ atoms = <<>>
    /\ \E e \in IoErrors : line' = Some(e)
    /\ pc' = "line_err"
    /\ UNCHANGED <<var_manager, max_var, input_clauses, atoms, clauses, values,
                   tops, assignments, derivation_graph, ci, done_something,
                   inputs, reset_level, sat, output, result>>

\* The failed line taken as the end of the input (Err(_) => break): the
\* solver is built on the clauses read so far.
ReadError_Swallowed ==
    /\ pc = "line_err"
    /\ pc' = "scan"
    /\ clauses' = input_clauses
    /\ values' = <<>>
    /\ tops' = <<>>
    /\ assignments' = [v \in 0..(Cardinality(DOMAIN var_manager) - 1) |-> NoneOpt]
    /\ derivation_graph' = [v \in 0..(Cardinality(DOMAIN var_manager) - 1) |-> NoneOpt]
    /\ ci' = 1
    /\ done_something' = FALSE
    /\ UNCHANGED <<var_manager, max_var, input_clauses, atoms, inputs,
                   reset_level, sat, output, line, result>>

\* run_cnf, `let line = line?` on Err(e): return Err(e) (the conversion of
\* `?` from io::Error to io::Error leaves e as it is).
ReadError ==
    /\ pc = "line_err"
    /\ pc' = "io_error"
    /\ result' = <<"Err", Unwrap(line)>>
    /\ UNCHANGED <<var_manager, max_var, input_clauses, atoms, clauses, values,
                   tops, assignments, derivation_graph, ci, done_something,
                   inputs, reset_level, sat, output, line>>

\* unit_prop_scan, one iteration of the for loop over the clauses
UnitPropStep ==
    /\ pc = "scan"
    /\ ci <= Len(clauses)
    /\ LET r == unit_prop_clause(clauses[ci], assignments) IN
       CASE r.kind = "Conflict" ->
              /\ pc' = "conflict"
              /\ inputs' = MapNegated(clauses[ci])
              /\ UNCHANGED <<values, assignments, derivation_graph, ci,
                             done_something>>
         [] r.kind = "None" ->
              /\ ci' = ci + 1
              /\ UNCHANGED <<pc, inputs, values, assignments, derivation_graph,
                             done_something>>
         [] r.kind = "UnitProp" ->
              LET out == Unwrap(r.output)
                  node == Derivation(stack_len(tops), r.inputs)
              IN  /\ derivation_graph' =
                         [derivation_graph EXCEPT ![out.var] = Some(node)]
                  /\ assignments' =
                         [assignments EXCEPT ![out.var] = Some(out.polarity)]
                  /\ values' = push_value(values, out)
                  /\ done_something' = TRUE
                  /\ ci' = ci + 1
                  /\ UNCHANGED <<pc, inputs>>
    /\ UNCHANGED <<var_manager, max_var, input_clauses, atoms, clauses, tops,
                   reset_level, sat, output>>
    /\ UNCHANGED <<line, result>>

\* The while loop without `done_something = false` at the top of a pass.
PassEnd_NoReset ==
    /\ pc = "scan"
    /\ ci > Len(clauses)
    /\ IF done_something
       THEN /\ ci' = 1
            /\ UNCHANGED <<pc, done_something>>
       ELSE /\ pc' = "done"
            /\ UNCHANGED <<ci, done_something>>
    /\ UNCHANGED <<var_manager, max_var, input_clauses, atoms, clauses, values,
                   tops, assignments, derivation_graph, inputs, reset_level,
                   sat, output>>
    /\ UNCHANGED <<line, result>>

\* unit_prop_scan returning Done after one pass, whether or not the pass
\* forced a literal.
PassEnd_SinglePass ==
    /\ pc = "scan"
    /\ ci > Len(clauses)
    /\ pc' = "done"
    /\ UNCHANGED <<ci, done_something>>
    /\ UNCHANGED <<var_manager, max_var, input_clauses, atoms, clauses, values,
                   tops, assignments, derivation_graph, inputs, reset_level,
                   sat, output>>
    /\ UNCHANGED <<line, result>>

\* unit_prop_scan, the for loop is over: another pass, or return Done
PassEnd ==
    /\ pc = "scan"
    /\ ci > Len(clauses)
    /\ IF done_something
       THEN /\ done_something' = FALSE
            /\ ci' = 1
            /\ UNCHANGED pc
       ELSE /\ pc' = "done"
            /\ UNCHANGED <<ci, done_something>>
    /\ UNCHANGED <<var_manager, max_var, input_clauses, atoms, clauses, values,
                   tops, assignments, derivation_graph, inputs, reset_level,
                   sat, output>>
    /\ UNCHANGED <<line, result>>

\* sat returning false on a conflict without testing the number of levels.
ConflictAtRoot_AnyLevel ==
    /\ pc = "conflict"
    /\ pc' = "returned"
    /\ sat' = Some(FALSE)
    /\ UNCHANGED <<var_manager, max_var, input_clauses, atoms, clauses, values,
                   tops, assignments, derivation_graph, ci, done_something,
                   inputs, reset_level, output>>
    /\ UNCHANGED <<line, result>>

\* sat, Conflict with no open level: return false
ConflictAtRoot ==
    /\ pc = "conflict"
    /\ stack_len(tops) = 0
    /\ pc' = "returned"
    /\ sat' = Some(FALSE)
    /\ UNCHANGED <<var_manager, max_var, input_clauses, atoms, clauses, values,
                   tops, assignments, derivation_graph, ci, done_something,
                   inputs, reset_level, output>>
    /\ UNCHANGED <<line, result>>

\* The learned clause inserted at the front of the list
\* (clauses.insert(0, ...)) instead of pushed at its end.
Learn_InsertsAtFront ==
    /\ pc = "conflict"
    /\ stack_len(tops) # 0
    /\ LET r == analyse_conflict(inputs, tops, values, assignments,
                                 derivation_graph)
       IN  IF r.panic # ""
           THEN /\ pc' = "panic"
                /\ UNCHANGED <<clauses, reset_level>>
           ELSE /\ pc' = "backjump"
                /\ clauses' = <<r.result_body>> \o clauses
                /\ reset_level' = r.reset_level
    /\ UNCHANGED <<var_manager, max_var, input_clauses, atoms, values, tops,
                   assignments, derivation_graph, ci, done_something, inputs,
                   sat, output>>
    /\ UNCHANGED <<line, result>>

\* sat, Conflict with an open level: analyse_conflict, clauses.push
Learn ==
    /\ pc = "conflict"
    /\ stack_len(tops) # 0
    /\ LET r == analyse_conflict(inputs, tops, values, assignments,
                                 derivation_graph)
       IN  IF r.panic # ""
           THEN /\ pc' = "panic"
                /\ UNCHANGED <<clauses, reset_level>>
           ELSE /\ pc' = "backjump"
                /\ clauses' = Append(clauses, r.result_body)
                /\ reset_level' = r.reset_level
    /\ UNCHANGED <<var_manager, max_var, input_clauses, atoms, values, tops,
                   assignments, derivation_graph, ci, done_something, inputs,
                   sat, output>>
    /\ UNCHANGED <<line, result>>

\* sat, the backjump loop, then the next unit_prop_scan starts
Backjump ==
    /\ pc = "backjump"
    /\ LET r == BackjumpLoop([panic |-> "", tops |-> tops, values |-> values,
                              assignments |-> assignments,
                              derivation_graph |-> derivation_graph],
                             reset_level)
       IN  /\ pc' = IF r.panic # "" THEN "panic" ELSE "scan"
           /\ tops' = r.tops
           /\ values' = r.values
           /\ assignments' = r.assignments
           /\ derivation_graph' = r.derivation_graph
    /\ ci' = 1
    /\ done_something' = FALSE
    /\ UNCHANGED <<var_manager, max_var, input_clauses, atoms, clauses, inputs,
                   reset_level, sat, output>>
    /\ UNCHANGED <<line, result>>

\* make_guess with push_value before push_stack: the decision literal lands
\* on the layer below and the new level starts empty.
MakeGuess_PushValueFirst ==
    /\ pc = "done"
    /\ guess(assignments) # NoneOpt
    /\ LET g == Unwrap(guess(assignments))
           node == Guess(stack_len(tops) + 1)
       IN  /\ derivation_graph' = [derivation_graph EXCEPT ![g.var] = Some(node)]
           /\ assignments' = [assignments EXCEPT ![g.var] = Some(g.polarity)]
           /\ values' = push_value(values, g)
           /\ tops' = push_stack(tops, values')
    /\ pc' = "scan"
    /\ ci' = 1
    /\ done_something' = FALSE
    /\ UNCHANGED <<var_manager, max_var, input_clauses, atoms, clauses, inputs,
                   reset_level, sat, output>>
    /\ UNCHANGED <<line, result>>

\* sat, Done with an unset variable: make_guess, then the next scan starts
MakeGuess ==
    /\ pc = "done"
    /\ guess(assignments) # NoneOpt
    /\ LET g == Unwrap(guess(assignments))
           node == Guess(stack_len(tops) + 1)
       IN  /\ derivation_graph' = [derivation_graph EXCEPT ![g.var] = Some(node)]
           /\ assignments' = [assignments EXCEPT ![g.var] = Some(g.polarity)]
           /\ tops' = push_stack(tops, values)
           /\ values' = push_value(values, g)
    /\ pc' = "scan"
    /\ ci' = 1
    /\ done_something' = FALSE
    /\ UNCHANGED <<var_manager, max_var, input_clauses, atoms, clauses, inputs,
                   reset_level, sat, output>>
    /\ UNCHANGED <<line, result>>

\* sat, Done with no unset variable: return true
ReturnSat ==
    /\ pc = "done"
    /\ guess(assignments) = NoneOpt
    /\ pc' = "returned"
    /\ sat' = Some(TRUE)
    /\ UNCHANGED <<var_manager, max_var, input_clauses, atoms, clauses, values,
                   tops, assignments, derivation_graph, ci, done_something,
                   inputs, reset_level, output>>
    /\ UNCHANGED <<line, result>>

\* run_cnf, writing the verdict and, on SAT, one line per named variable
\* (the lines come in the map's iteration order, kept here as a set).
WriteResult ==
    /\ pc = "returned"
    /\ pc' = "exit"
    /\ output' =
         IF sat = Some(TRUE)
         THEN <<"SAT", {<<name,
                          IF assignments[var_manager[name]] = Some(TRUE) THEN "1"
                          ELSE IF assignments[var_manager[name]] = Some(FALSE) THEN "0"
                          ELSE "_">> : name \in DOMAIN var_manager}>>
         ELSE <<"UNSAT">>
    /\ UNCHANGED <<var_manager, max_var, input_clauses, atoms, clauses, values,
                   tops, assignments, derivation_graph, ci, done_something,
                   inputs, reset_level, sat>>
    /\ result' = <<"Ok">>
    /\ UNCHANGED line

Next ==
    \/ ReadAtom
    \/ EndLine
    \/ EndInput
    \/ LineFails
    \/ ReadError
    \/ UnitPropStep
    \/ PassEnd
    \/ ConflictAtRoot
    \/ Learn
    \/ Backjump
    \/ MakeGuess
    \/ ReturnSat
    \/ WriteResult

Spec == Init /\ [][Next]_vars

\* The steps of State::sat.  The solver is sequential and never blocks: a
\* step that is enabled is eventually taken.
SolverNext ==
    \/ UnitPropStep
    \/ PassEnd
    \/ ConflictAtRoot
    \/ Learn
    \/ Backjump
    \/ MakeGuess
    \/ ReturnSat

LiveNext ==
    \/ ReadAtomShort
    \/ EndLine
    \/ EndInput
    \/ LineFails
    \/ ReadError
    \/ UnitPropStep
    \/ PassEnd
    \/ ConflictAtRoot
    \/ Learn
    \/ Backjump
    \/ MakeGuess
    \/ ReturnSat
    \/ WriteResult

\* The steps of State::sat are taken while enabled, and so is the return
\* of `?` on a failed line; the input may stop arriving at any point.
LiveSpec ==
    Init /\ [][LiveNext]_vars /\ WF_vars(SolverNext) /\ WF_vars(ReadError)

----------------------------------------------------------------------------
\* Semantics of clauses, used to state the properties.

NumVars == Cardinality(DOMAIN var_manager)

LitTrue(atom, assignment) == assignment[atom.var] = Some(atom.polarity)
LitFalse(atom, assignment) == assignment[atom.var] = Some(~atom.polarity)
LitUnset(atom, assignment) == assignment[atom.var] = NoneOpt

\* A total assignment m (a function from variable ids to BOOLEAN) satisfies
\* the clause body.
Satisfies(m, body) == \E i \in 1..Len(body) : m[body[i].var] = body[i].polarity

TotalAssignments == [0..(NumVars - 1) -> BOOLEAN]

\* The total assignments that satisfy every clause of the list cs.
Models(cs) == {m \in TotalAssignments : \A k \in 1..Len(cs) : Satisfies(m, cs[k])}

Learned == Len(clauses) > Len(input_clauses)
LastClause == clauses[Len(clauses)]

\* The stack layer (0 for the bottom layer) that holds position i of values.
LayerOf(ts, i) == Cardinality({k \in 1..Len(ts) : ts[k] < i})

\* The positions of variable v on the stack.
Occurrences(vs, v) == {i \in 1..Len(vs) : vs[i].var = v}

----------------------------------------------------------------------------
\* C1: when State::sat returns true, every original input clause has a
\* literal that is true under the final assignment map.
SatIsModel ==
    sat = Some(TRUE) =>
        \A k \in 1..Len(input_clauses) :
            \E i \in 1..Len(input_clauses[k]) :
                LitTrue(input_clauses[k][i], assignments)

\* The input "!a b / !a !b" is answered SAT with a false, after a conflict.
SatIsModelWitness ==
    /\ sat = Some(TRUE)
    /\ input_clauses = << <<as_atom(0, FALSE), as_atom(1, TRUE)>>,
                          <<as_atom(0, FALSE), as_atom(1, FALSE)>> >>
    /\ Learned
    /\ assignments[0] = Some(FALSE)

\* C2: when State::sat returns false, no total assignment satisfies every
\* input clause.
UnsatHasNoModel ==
    sat = Some(FALSE) => Models(input_clauses) = {}

\* UNSAT is returned after at least one clause was learned.
UnsatHasNoModelWitness ==
    /\ sat = Some(FALSE)
    /\ Learned
    /\ NumVars >= 1

\* C3: every run of State::sat ends with a verdict (from some point on
\* either the solver was never started or sat() has returned), and no
\* unit_prop_scan runs forever.
SolverTerminates ==
    /\ <>[](pc \in {"read", "io_error"} \/ sat # NoneOpt)
    /\ []<>(pc # "scan")

\* SAT was returned after a conflict at level 2 was analysed and the
\* search resumed at level 1.
SolverTerminatesWitness ==
    /\ pc = "returned"
    /\ sat = Some(TRUE)
    /\ Learned
    /\ Len(LastClause) >= 2

\* C4: analyse_conflict, whenever State::sat calls it, meets none of its
\* panics and never takes cur_level_size below 0, and the backjump never
\* pops with no open level.
NoStructuralAbort ==
    /\ pc # "panic"
    /\ (pc = "conflict" /\ stack_len(tops) # 0) =>
          LET r == analyse_conflict(inputs, tops, values, assignments,
                                    derivation_graph)
          IN  r.panic = "" /\ ~r.negative

\* A conflict at level 2 was analysed and the backjump has run.
NoStructuralAbortWitness ==
    /\ pc = "scan"
    /\ Learned
    /\ reset_level >= 1
    /\ stack_len(tops) = reset_level

\* C5: the assignment map, the stack and the derivation graph describe the
\* same assigned set, and no variable is on the stack twice.
StructuresAgree ==
    /\ \A v \in DOMAIN assignments :
          LET occ == Occurrences(values, v) IN
          /\ Cardinality(occ) <= 1
          /\ (assignments[v] # NoneOpt) <=> (occ # {})
          /\ \A i \in occ : assignments[v] = Some(values[i].polarity)
          /\ (assignments[v] # NoneOpt) <=> (derivation_graph[v] # NoneOpt)
    /\ \A i \in 1..Len(values) : values[i].var \in DOMAIN assignments
    /\ DOMAIN derivation_graph = DOMAIN assignments

\* After a backjump: a propagated literal is on the stack, one variable is
\* set and another one is unset again.
StructuresAgreeWitness ==
    /\ pc = "scan"
    /\ Learned
    /\ \E v \in DOMAIN assignments : assignments[v] = NoneOpt
    /\ \E v \in DOMAIN assignments :
          /\ derivation_graph[v] # NoneOpt
          /\ Unwrap(derivation_graph[v]).kind = "Derivation"
    /\ \E v \in DOMAIN assignments :
          /\ derivation_graph[v] # NoneOpt
          /\ Unwrap(derivation_graph[v]).kind = "Guess"

\* C6: the clause analyse_conflict returned is satisfied by every total
\* assignment that satisfies all original input clauses.
LearnedIsEntailed ==
    pc = "backjump" =>
        \A m \in Models(input_clauses) : Satisfies(m, LastClause)

\* A clause of two literals has been learned from a satisfiable input.
LearnedIsEntailedWitness ==
    /\ pc = "backjump"
    /\ Len(LastClause) >= 2
    /\ Models(input_clauses) # {}

\* C7: when the clause is learned, before the backjump, each of its
\* literals is false under the assignment map.
LearnedIsFalsified ==
    pc = "backjump" =>
        \A i \in 1..Len(LastClause) : LitFalse(LastClause[i], assignments)

\* A clause with a literal of a lower level has been learned.
LearnedIsFalsifiedWitness ==
    /\ pc = "backjump"
    /\ Len(LastClause) >= 2
    /\ reset_level >= 1

\* The learned clause is unit: its last literal (the negated pivot) is
\* unset and the others are false.
LearnedUnit ==
    /\ Learned
    /\ LitUnset(LastClause[Len(LastClause)], assignments)
    /\ \A i \in 1..(Len(LastClause) - 1) : LitFalse(LastClause[i], assignments)

\* The negated pivot is on top of the stack, true, with a Derivation entry
\* at level reset_level whose reasons are the complements of the other
\* literals of the learned clause.
PivotInstalled ==
    /\ Learned
    /\ stack_len(tops) = reset_level
    /\ values # <<>>
    /\ values[Len(values)] = LastClause[Len(LastClause)]
    /\ LitTrue(LastClause[Len(LastClause)], assignments)
    /\ derivation_graph[LastClause[Len(LastClause)].var] =
          Some(Derivation(reset_level,
                          MapNegated(SubSeq(LastClause, 1, Len(LastClause) - 1))))

\* C8: the backjump leaves the learned clause unit at level reset_level, and
\* the unit_prop_scan that follows does not return and changes nothing
\* until it installs the negated pivot as a Derivation at reset_level with
\* the complements of the clause's other literals as reasons.
LearnedIsAsserting ==
    [][ /\ pc = "backjump" =>
              /\ pc' = "scan"
              /\ LearnedUnit'
              /\ stack_len(tops') = reset_level'
        /\ (pc = "scan" /\ LearnedUnit) =>
              /\ pc' = "scan"
              /\ \/ LearnedUnit' /\ UNCHANGED solver
                 \/ PivotInstalled' /\ ci = Len(clauses)
      ]_vars

\* The negated pivot was installed at a level above 0.
LearnedIsAssertingWitness ==
    /\ pc = "scan"
    /\ PivotInstalled
    /\ reset_level >= 1
    /\ ci = Len(clauses) + 1

\* C9: the level analyse_conflict returns is below the level of the
\* conflict.
ResetLevelBelowCurrent ==
    pc = "backjump" => reset_level < stack_len(tops)

\* A conflict at level 2 with a backjump level of 1.
ResetLevelBelowCurrentWitness ==
    /\ pc = "backjump"
    /\ stack_len(tops) = 2
    /\ reset_level = 1

\* C10: the backjump leaves reset_level open levels; a variable on a layer
\* above reset_level loses its assignment and its graph entry; every other
\* variable keeps its assignment, its graph entry and its stack position.
BackjumpFrame ==
    [][ pc = "backjump" =>
          /\ stack_len(tops') = reset_level
          /\ tops' = SubSeq(tops, 1, reset_level)
          /\ values' = SubSeq(values, 1, Len(values'))
          /\ \A v \in DOMAIN assignments :
                IF \E i \in Occurrences(values, v) : LayerOf(tops, i) > reset_level
                THEN /\ assignments'[v] = NoneOpt
                     /\ derivation_graph'[v] = NoneOpt
                     /\ Occurrences(values', v) = {}
                ELSE /\ assignments'[v] = assignments[v]
                     /\ derivation_graph'[v] = derivation_graph[v]
                     /\ Occurrences(values', v) = Occurrences(values, v)
      ]_vars

\* A backjump to level 1 has unset a variable and kept another one.
BackjumpFrameWitness ==
    /\ pc = "scan"
    /\ LearnedUnit
    /\ reset_level = 1
    /\ stack_len(tops) = 1
    /\ ci = 1
    /\ Len(values) >= 1

\* C11: the clause State::sat appends after a conflict is equal to no clause
\* that was in the clause list before, original or learned.
LearnedIsNew ==
    pc = "backjump" =>
        \A k \in 1..(Len(clauses) - 1) : clauses[k] # LastClause

\* A second clause has been learned, next to an original clause over the
\* same variable.
LearnedIsNewWitness ==
    /\ pc = "backjump"
    /\ Len(clauses) >= Len(input_clauses) + 2
    /\ \E k \in 1..Len(input_clauses) :
          \E i \in 1..Len(clauses[k]) : clauses[k][i] = LastClause[Len(LastClause)]

\* The classification of a clause body under an assignment map, by the
\* positions of the body: a true literal, all literals false, exactly one
\* position unset.
SomeTrue(body, assignment) == \E i \in 1..Len(body) : LitTrue(body[i], assignment)
AllFalse(body, assignment) == \A i \in 1..Len(body) : LitFalse(body[i], assignment)
UnsetPositions(body, assignment) ==
    {i \in 1..Len(body) : LitUnset(body[i], assignment)}
IsUnit(body, assignment) ==
    /\ ~SomeTrue(body, assignment)
    /\ Cardinality(UnsetPositions(body, assignment)) = 1
Falsified(body, assignment) ==
    SelectSeq(body, LAMBDA atom : LitFalse(atom, assignment))

\* C12: unit_prop_clause returns None for a clause with a true literal,
\* else Conflict when every literal is false, else UnitProp when exactly one
\* literal (position) is unset, with that literal as output and the
\* complements of the falsified literals, all of them true, as inputs, else
\* None.
ClassificationIsTotal ==
    \A k \in 1..Len(clauses) :
        LET body == clauses[k]
            r == unit_prop_clause(body, assignments)
        IN  IF SomeTrue(body, assignments) THEN r.kind = "None"
            ELSE IF AllFalse(body, assignments) THEN r.kind = "Conflict"
            ELSE IF Cardinality(UnsetPositions(body, assignments)) = 1
            THEN /\ r.kind = "UnitProp"
                 /\ r.output =
                       {body[i] : i \in UnsetPositions(body, assignments)}
                 /\ r.inputs = MapNegated(Falsified(body, assignments))
                 /\ \A i \in 1..Len(r.inputs) : LitTrue(r.inputs[i], assignments)
            ELSE r.kind = "None"

\* The clause list holds a unit clause with two falsified literals, and a
\* clause whose two unset positions carry the same literal.
ClassificationIsTotalWitness ==
    /\ pc = "scan"
    /\ \E k \in 1..Len(clauses) :
          /\ IsUnit(clauses[k], assignments)
          /\ Len(Falsified(clauses[k], assignments)) >= 1
    /\ \E k \in 1..Len(clauses) :
          /\ ~SomeTrue(clauses[k], assignments)
          /\ Cardinality(UnsetPositions(clauses[k], assignments)) = 2
          /\ Cardinality({clauses[k][i] :
                             i \in UnsetPositions(clauses[k], assignments)}) = 1

\* C13: when unit_prop_scan returns Done no clause of the list is a conflict
\* or unit; the scan returns Conflict at the first clause it visits in a
\* pass that is all false at the visit, with the complements of all the
\* literals of that clause as inputs, each of them true.
ScanReachesFixpoint ==
    /\ [](pc = "done" =>
            \A k \in 1..Len(clauses) :
                /\ ~AllFalse(clauses[k], assignments)
                /\ ~IsUnit(clauses[k], assignments))
    /\ [](pc = "conflict" =>
            /\ AllFalse(clauses[ci], assignments)
            /\ inputs = [i \in 1..Len(clauses[ci]) |-> negated(clauses[ci][i])]
            /\ \A i \in 1..Len(inputs) : LitTrue(inputs[i], assignments))
    /\ [][ (pc = "scan" /\ ci <= Len(clauses)) =>
              (pc' = "conflict" <=> AllFalse(clauses[ci], assignments)) ]_vars

\* The scan returned the conflict of the clause it met all false, while a
\* clause earlier in the list, visited before the pass falsified it, is all
\* false too.
ScanReachesFixpointWitness ==
    /\ pc = "conflict"
    /\ \E k \in 1..(ci - 1) : AllFalse(clauses[k], assignments)

\* The first position of the opened level k (1..stack_len) on the stack.
LevelStart(ts, k) == ts[k] + 1

\* C14: a level is opened only when unit_prop_scan returned Done, for the
\* unset variable of smallest index with positive polarity; the decision
\* literal is the first entry of the new level and its graph entry is Guess
\* with the new number of open levels; the first entry of every opened
\* level has a Guess entry and every other entry of the stack a Derivation
\* entry.
DecisionOpensLevel ==
    /\ [][ stack_len(tops') > stack_len(tops) =>
             LET g == values'[Len(values')] IN
             /\ pc = "done"
             /\ g.polarity = TRUE
             /\ assignments[g.var] = NoneOpt
             /\ \A v \in DOMAIN assignments : v < g.var => assignments[v] # NoneOpt
             /\ stack_len(tops') = stack_len(tops) + 1
             /\ Len(values') = Len(values) + 1
             /\ LevelStart(tops', stack_len(tops')) = Len(values')
             /\ assignments'[g.var] = Some(TRUE)
             /\ derivation_graph'[g.var] = Some(Guess(stack_len(tops'))) ]_vars
    /\ [](\A i \in 1..Len(values) :
            /\ derivation_graph[values[i].var] # NoneOpt
            /\ Unwrap(derivation_graph[values[i].var]).kind =
                  IF \E k \in 1..stack_len(tops) : LevelStart(tops, k) = i
                  THEN "Guess" ELSE "Derivation")

\* Two levels are open, the second level holds a propagated literal after
\* its decision, and the second decision is on a variable of higher index
\* than the first.
DecisionOpensLevelWitness ==
    /\ stack_len(tops) = 2
    /\ Len(values) > LevelStart(tops, 2)
    /\ values[LevelStart(tops, 2)].var > values[LevelStart(tops, 1)].var

\* C15: when sat returns true no slot of the assignment map is unset, and
\* the SAT output has a line with 0 or 1, and no line with _, for every
\* named variable.
SatAssignsAll ==
    /\ sat = Some(TRUE) =>
          /\ DOMAIN assignments = 0..(NumVars - 1)
          /\ \A v \in DOMAIN assignments : assignments[v] # NoneOpt
    /\ (pc = "exit" /\ sat = Some(TRUE)) =>
          /\ output[1] = "SAT"
          /\ \A name \in DOMAIN var_manager :
                /\ <<name, "_">> \notin output[2]
                /\ <<name, "0">> \in output[2] \/ <<name, "1">> \in output[2]

\* SAT was written for three variables, one of them false, with a variable
\* that only a decision could set.
SatAssignsAllWitness ==
    /\ pc = "exit"
    /\ sat = Some(TRUE)
    /\ NumVars = 3
    /\ \E name \in DOMAIN var_manager : <<name, "0">> \in output[2]
    /\ \E v \in DOMAIN derivation_graph :
          /\ derivation_graph[v] # NoneOpt
          /\ Unwrap(derivation_graph[v]).kind = "Guess"

\* The positions of the input clauses that consist of one literal.
SingleLiteral == {i \in 1..Len(input_clauses) : Len(input_clauses[i]) = 1}

\* Two single-literal input clauses carry complementary literals.
ComplementaryUnits ==
    \E i, j \in SingleLiteral : input_clauses[j][1] = negated(input_clauses[i][1])

\* The solver was constructed: reading ended without an error.
SolverStarted == pc \notin {"read", "line_err", "io_error"}

\* The first call of unit_prop_scan returned Done at some earlier point.
PastInitialPropagation ==
    \/ pc \in {"done", "backjump"}
    \/ tops # <<>>
    \/ Learned
    \/ sat = Some(TRUE)

\* C16: with a pair of complementary single-literal clauses in the input
\* the solver never opens a level, never learns a clause, never finishes a
\* pass of its first scan and can only return UNSAT; the literal of a
\* single-literal clause is true, derived at level 0 and on the bottom
\* layer once the initial propagation has ended without a conflict; and
\* UNSAT is only returned from a conflict found with zero open levels.
UnitClausesForcedAtRoot ==
    /\ [](SolverStarted /\ ComplementaryUnits =>
            /\ tops = <<>>
            /\ ~Learned
            /\ pc \in {"scan", "conflict", "returned", "exit"}
            /\ pc = "scan" => ci <= Len(clauses)
            /\ sat \in {NoneOpt, Some(FALSE)}
            /\ \A v \in DOMAIN derivation_graph :
                  derivation_graph[v] # NoneOpt =>
                     Unwrap(derivation_graph[v]).kind = "Derivation")
    /\ [](SolverStarted /\ PastInitialPropagation =>
            \A i \in SingleLiteral :
               LET lit == input_clauses[i][1] IN
               /\ LitTrue(lit, assignments)
               /\ Unwrap(derivation_graph[lit.var]).kind = "Derivation"
               /\ Unwrap(derivation_graph[lit.var]).level = 0
               /\ \E p \in 1..Len(values) :
                     values[p] = lit /\ LayerOf(tops, p) = 0)
    /\ [](sat = Some(FALSE) =>
            /\ tops = <<>>
            /\ AllFalse(clauses[ci], assignments))
    /\ [][(sat' # sat /\ sat' = Some(FALSE)) =>
            (pc = "conflict" /\ stack_len(tops) = 0)]_vars

\* UNSAT was written for an input whose complementary single-literal
\* clauses are separated by a clause on another variable, which was
\* propagated before the conflict.
UnitClausesForcedAtRootWitness ==
    /\ pc = "exit"
    /\ output = <<"UNSAT">>
    /\ \E i, j \in SingleLiteral :
          /\ j > i + 1
          /\ input_clauses[j][1] = negated(input_clauses[i][1])
          /\ \E v \in DOMAIN assignments :
                v # input_clauses[i][1].var /\ assignments[v] # NoneOpt

\* What the next pop of the top level yields.
Yielded == pop_stack_iter(tops, values).drained

\* C19 as stated: popping the top level yields its literals in
\* reverse-insertion order, the most recently pushed literal first and the
\* level's decision literal last.
PopYieldsReverseInsertionOrder ==
    tops # <<>> =>
       /\ \A j \in 1..Len(Yielded) : Yielded[j] = values[Len(values) + 1 - j]
       /\ Yielded # <<>> =>
             Unwrap(derivation_graph[Yielded[Len(Yielded)].var]).kind = "Guess"

\* C19: popping the top level yields all the literals of that level in
\* insertion order, the level's decision literal first and the most
\* recently pushed literal last.
PopYieldsInsertionOrder ==
    tops # <<>> =>
       /\ Len(Yielded) = Len(values) - tops[Len(tops)]
       /\ \A j \in 1..Len(Yielded) : Yielded[j] = values[tops[Len(tops)] + j]
       /\ Yielded # <<>>
       /\ Unwrap(derivation_graph[Yielded[1].var]).kind = "Guess"
       /\ Unwrap(derivation_graph[Yielded[1].var]).level = stack_len(tops)
       /\ Yielded[Len(Yielded)] = values[Len(values)]

\* The backjump loop is about to pop a level that holds its decision and
\* at least one propagated literal.
PopYieldsInsertionOrderWitness ==
    /\ pc = "backjump"
    /\ stack_len(tops) > reset_level
    /\ Len(Yielded) >= 2

\* The variables whose graph entry is a Derivation.
Derived ==
    {v \in DOMAIN derivation_graph :
        /\ derivation_graph[v] # NoneOpt
        /\ Unwrap(derivation_graph[v]).kind = "Derivation"}

\* C20: for every variable whose graph entry is Derivation(L, inputs), each
\* input literal is true under the assignment map, its variable lies
\* strictly earlier on the layered stack than the derived variable, and
\* its graph entry has a level of at most L.
DerivationInputsPrecede ==
    \A v \in Derived :
       LET node == Unwrap(derivation_graph[v]) IN
       \A k \in 1..Len(node.inputs) :
          LET in == node.inputs[k] IN
          /\ LitTrue(in, assignments)
          /\ \E p, q \in 1..Len(values) :
                values[p] = in /\ values[q].var = v /\ p < q
          /\ derivation_graph[in.var] # NoneOpt
          /\ Unwrap(derivation_graph[in.var]).level <= node.level

\* A derivation at level 1 or above has an input decided or derived at a
\* strictly lower level and an input of its own level.
DerivationInputsPrecedeWitness ==
    \E v \in Derived :
       LET node == Unwrap(derivation_graph[v]) IN
       /\ node.level >= 1
       /\ \E k \in 1..Len(node.inputs) :
             Unwrap(derivation_graph[node.inputs[k].var]).level < node.level
       /\ \E k \in 1..Len(node.inputs) :
             Unwrap(derivation_graph[node.inputs[k].var]).level = node.level

\* C18: when reading a line fails, the next step of run_cnf returns that
\* error and changes nothing else; until then and ever after the solver is
\* not constructed, no verdict exists and nothing is written to the
\* output; an error is returned for no other reason.
ReadErrorSurfaced ==
    /\ [][pc = "line_err" =>
            /\ pc' = "io_error"
            /\ result' = <<"Err", Unwrap(line)>>
            /\ UNCHANGED <<solver, sat, output, input_clauses, line>>]_vars
    /\ [](pc \in {"line_err", "io_error"} =>
            /\ line \in {Some(e) : e \in IoErrors}
            /\ clauses = <<>> /\ values = <<>> /\ tops = <<>>
            /\ DOMAIN assignments = {} /\ DOMAIN derivation_graph = {}
            /\ sat = NoneOpt
            /\ output = <<>>)
    /\ [](pc = "io_error" => result = <<"Err", Unwrap(line)>>)
    /\ [](pc # "io_error" => result \in {<<>>, <<"Ok">>})
    /\ [][pc = "io_error" => FALSE]_vars

\* The third line of an input over two variables failed with InvalidData
\* and run_cnf returned that error.
ReadErrorSurfacedWitness ==
    /\ pc = "io_error"
    /\ result = <<"Err", "InvalidData">>
    /\ Len(input_clauses) = 2
    /\ NumVars = 2

\* The implication graph of the current level, read off derivation_graph
\* and the conflict inputs.
LevelVars ==
    {v \in DOMAIN derivation_graph :
        /\ derivation_graph[v] # NoneOpt
        /\ Unwrap(derivation_graph[v]).level = stack_len(tops)}

DecisionVar ==
    CHOOSE v \in LevelVars : Unwrap(derivation_graph[v]).kind = "Guess"

Edge(u, v) ==
    /\ derivation_graph[v] # NoneOpt
    /\ \E k \in 1..Len(Unwrap(derivation_graph[v]).inputs) :
          Unwrap(derivation_graph[v]).inputs[k].var = u

ConflictVars == {inputs[k].var : k \in 1..Len(inputs)}

\* The variables of the current level reached from S along edges that do
\* not pass through p.
RECURSIVE ReachAvoiding(_, _)
ReachAvoiding(S, p) ==
    LET n == S \cup {v \in LevelVars \ {p} : \E u \in S : Edge(u, v)} IN
    IF n = S THEN S ELSE ReachAvoiding(n, p)

\* p is a unique implication point: a variable of the current level that
\* every path from the decision to the conflict passes.
IsUIP(p) ==
    /\ p \in LevelVars
    /\ ReachAvoiding({DecisionVar} \ {p}, p) \cap ConflictVars = {}

PosOf(v) == CHOOSE i \in 1..Len(values) : values[i].var = v

PivotVar == LastClause[Len(LastClause)].var

\* C21: after analyse_conflict returned, its pivot is a literal of the
\* current level on every path from the level's decision to the conflict,
\* no such literal stands later on the stack, the conflict is reached from
\* the decision, and the learned clause ends with the pivot's negation and
\* has no other literal of a variable assigned at the current level.
PivotIsFirstUIP ==
    pc = "backjump" =>
       /\ \E v \in LevelVars : Unwrap(derivation_graph[v]).kind = "Guess"
       /\ ReachAvoiding({DecisionVar}, DecisionVar) \cap ConflictVars # {}
       /\ IsUIP(PivotVar)
       /\ \A q \in LevelVars : IsUIP(q) => PosOf(q) <= PosOf(PivotVar)
       /\ LastClause[Len(LastClause)] = negated(values[PosOf(PivotVar)])
       /\ \A k \in 1..(Len(LastClause) - 1) : LastClause[k].var \notin LevelVars

\* The pivot is a propagated literal and the level's decision is a unique
\* implication point too, further from the conflict.
PivotIsFirstUIPWitness ==
    /\ pc = "backjump"
    /\ Unwrap(derivation_graph[PivotVar]).kind = "Derivation"
    /\ IsUIP(DecisionVar)
    /\ PosOf(DecisionVar) < PosOf(PivotVar)

GraphLevel(v) == Unwrap(derivation_graph[v]).level

\* The graph levels of the learned clause's variables other than the pivot.
OtherLevels == {GraphLevel(LastClause[k].var) : k \in 1..(Len(LastClause) - 1)}

\* C22: after analyse_conflict returned, reset_level is the greatest graph
\* level among the learned clause's variables other than the pivot, and 0
\* when the clause is the negated pivot alone (as it is when the conflict
\* is at level 1); no variable of the learned clause is assigned at level
\* 0 and none occurs twice.
ResetLevelIsMaxLevel ==
    pc = "backjump" =>
       /\ \A k \in 1..Len(LastClause) :
             derivation_graph[LastClause[k].var] # NoneOpt
       /\ IF Len(LastClause) = 1
          THEN reset_level = 0
          ELSE reset_level \in OtherLevels /\ \A l \in OtherLevels : l <= reset_level
       /\ stack_len(tops) = 1 =>
             /\ Len(LastClause) = 1
             /\ reset_level = 0
       /\ \A k \in 1..Len(LastClause) : GraphLevel(LastClause[k].var) # 0
       /\ \A j, k \in 1..Len(LastClause) :
             LastClause[j].var = LastClause[k].var => j = k

\* The learned clause has a literal besides the pivot's negation, of a
\* level below the conflict's, and that level is the backjump level.
ResetLevelIsMaxLevelWitness ==
    /\ pc = "backjump"
    /\ Len(LastClause) >= 2
    /\ reset_level >= 1
    /\ reset_level = GraphLevel(LastClause[1].var)

\* The variables whose graph entry has level 0.
LevelZero ==
    {v \in DOMAIN derivation_graph :
        derivation_graph[v] # NoneOpt /\ GraphLevel(v) = 0}

\* C23: a variable with a level-0 graph entry is assigned and stands on
\* the bottom layer, and no step changes its value, its graph entry or
\* the bottom layer's literals before it; a backjump clears the value and
\* the entry of every variable of a level above its target, keeps those
\* of every other variable, and leaves exactly the target's levels open.
LevelZeroPersists ==
    /\ [](\A v \in LevelZero :
            /\ assignments[v] # NoneOpt
            /\ Unwrap(derivation_graph[v]).kind = "Derivation"
            /\ \E p \in 1..Len(values) :
                  values[p].var = v /\ LayerOf(tops, p) = 0)
    /\ [][\A v \in LevelZero :
            /\ assignments'[v] = assignments[v]
            /\ derivation_graph'[v] = derivation_graph[v]
            /\ \E p \in 1..Len(values) :
                  values[p].var = v /\ SubSeq(values', 1, p) = SubSeq(values, 1, p)]_vars
    /\ [][(pc = "backjump" /\ pc' # "backjump") =>
            /\ stack_len(tops') = reset_level
            /\ \A v \in DOMAIN derivation_graph :
                  IF derivation_graph[v] # NoneOpt /\ GraphLevel(v) > reset_level
                  THEN assignments'[v] = NoneOpt /\ derivation_graph'[v] = NoneOpt
                  ELSE /\ assignments'[v] = assignments[v]
                       /\ derivation_graph'[v] = derivation_graph[v]]_vars

\* A backjump to level 0 has just been made (the learned clause is not
\* propagated yet) and a literal forced by an input clause before the
\* first decision is still on the bottom layer.
LevelZeroPersistsWitness ==
    /\ pc = "scan"
    /\ ci = 1
    /\ Len(clauses) = Len(input_clauses) + 1
    /\ reset_level = 0
    /\ tops = <<>>
    /\ \A k \in 1..Len(LastClause) : assignments[LastClause[k].var] = NoneOpt
    /\ LevelZero # {}

\* C24: once the solver is built the input clauses are a prefix of the
\* clause list, in their order; every step keeps the clauses it finds, in
\* place and unaltered, and appends one clause exactly when it handles a
\* conflict found with a level open.
ClauseListOnlyGrows ==
    /\ [](SolverStarted =>
            /\ Len(clauses) >= Len(input_clauses)
            /\ SubSeq(clauses, 1, Len(input_clauses)) = input_clauses)
    /\ [][SolverStarted =>
            /\ input_clauses' = input_clauses
            /\ Len(clauses') >= Len(clauses)
            /\ SubSeq(clauses', 1, Len(clauses)) = clauses
            /\ IF pc = "conflict" /\ stack_len(tops) > 0
               THEN Len(clauses') = Len(clauses) + 1
               ELSE clauses' = clauses]_vars

\* Two clauses were learned and the solver went on to propagate, decide
\* or return after the second.
ClauseListOnlyGrowsWitness ==
    /\ Len(clauses) = Len(input_clauses) + 2
    /\ Len(input_clauses) >= 2
    /\ pc \in {"done", "returned"}

\* The number of literals on the k-th opened level.
LevelSize(k) ==
    (IF k < Len(tops) THEN tops[k + 1] ELSE Len(values)) - tops[k]

\* C25: the level in a variable's graph entry is the index of the stack
\* layer that holds its literal (0 for the bottom layer, k for the k-th
\* opened level), every literal on the stack has such an entry, every
\* open level holds at least one literal, and at most N levels are open.
LevelIsLayerIndex ==
    /\ \A p \in 1..Len(values) :
          /\ derivation_graph[values[p].var] # NoneOpt
          /\ GraphLevel(values[p].var) = LayerOf(tops, p)
    /\ \A v \in DOMAIN derivation_graph :
          derivation_graph[v] # NoneOpt =>
             \E p \in 1..Len(values) : values[p].var = v
    /\ \A k \in 1..Len(tops) : LevelSize(k) >= 1
    /\ stack_len(tops) <= NumVars

\* Literals stand on the bottom layer and on two opened levels.
LevelIsLayerIndexWitness ==
    /\ stack_len(tops) = 2
    /\ tops[1] >= 1
    /\ Len(values) = 3

====
